---- MODULE Spec2Model ----
(***************************************************************************)
(* Model of the Astarte device SDK's property cache (src/database.rs) and  *)
(* pairing client (src/pairing.rs).                                        *)
(*                                                                         *)
(* The property cache is one SQLite table, propcache, reached through a    *)
(* connection pool by concurrent async callers.  Every sqlx statement is   *)
(* one atomic step of the engine; load_prop is two statements (select,     *)
(* then delete on a major mismatch) with an await point between them.      *)
(***************************************************************************)
EXTENDS Integers, Sequences, FiniteSets, Bags, TLC

\* ------------------------------------------------------------------ bounds
\* load_prop calls that may be suspended between their two statements at the
\* same time; the other operations are single statements, and any number of
\* callers may issue them meanwhile.
MaxSuspended == 1
MaxMajor == 2

Majors == 1..MaxMajor
Interfaces == {"com.test", "com.test2"}
Paths == {"/test"}

\* ------------------------------------------------------------------- codec
\* AstarteSdk::serialize_individual / AstarteSdk::deserialize live in the
\* crate root, outside src/; they are modelled from the spec's description of
\* the codec: a payload is a tagged byte string, the empty byte string decodes
\* to the Unset sentinel, a document payload decodes to an Object.
TagInt32 == 16
TagDocument == 3
TagInvalid == 255

Unset == [ty |-> "Unset", v |-> 0]
Integer(n) == [ty |-> "Integer", v |-> n]
\* The typed values callers encode: the one of test_db, and the Unset sentinel.
Scalars == {Integer(23)}
AstarteTypes == {Unset} \cup Scalars

serialize_individual(ty) ==
    IF ty = Unset THEN <<>> ELSE <<TagInt32, ty.v>>

ObjectBytes == <<TagDocument, 0>>
GarbageBytes == <<TagInvalid, 0>>

\* Every byte payload a caller may hand to store_prop (value: &[u8]).
Payloads == {serialize_individual(ty) : ty \in AstarteTypes}
                \cup {ObjectBytes, GarbageBytes}

Individual(ty) == [tag |-> "Individual", data |-> ty]
Object == [tag |-> "Object", data |-> Unset]
DeserializationError == [tag |-> "Err", data |-> Unset]

deserialize(bdata) ==
    IF bdata = <<>> THEN Individual(Unset)
    ELSE IF bdata[1] = TagInt32 THEN Individual(Integer(bdata[2]))
    ELSE IF bdata[1] = TagDocument THEN Object
    ELSE DeserializationError

\* ------------------------------------------------------------------- state
VARIABLES
    propcache,  \* the table: a sequence of StoredProp rows in rowid order
    suspended,  \* the load_prop calls awaiting their delete statement (a bag)
    result,     \* what the step just taken did and returned
    last,       \* history: per key, the latest statement that touched it
    cleared,    \* history: a clear succeeded and no store succeeded since
    pairing     \* the pairing client's call in progress

dbvars == <<propcache, suspended, result, last, cleared>>
vars == <<propcache, suspended, result, last, cleared, pairing>>

StoredProp(interface, path, value, interface_major) ==
    [interface |-> interface, path |-> path, value |-> value,
     interface_major |-> interface_major]

Keys == [interface : Interfaces, path : Paths]
KeyOf(row) == [interface |-> row.interface, path |-> row.path]
Key(interface, path) == [interface |-> interface, path |-> path]

Range(s) == {s[i] : i \in 1..Len(s)}

\* Return values (Result<_, AstarteError>), one record shape for all five
\* operations.
NoRows == <<>>
RetOk == [tag |-> "Ok", data |-> Unset, rows |-> NoRows, err |-> ""]
RetNone == [tag |-> "None", data |-> Unset, rows |-> NoRows, err |-> ""]
RetSome(ty) == [tag |-> "Some", data |-> ty, rows |-> NoRows, err |-> ""]
RetRows(rows) == [tag |-> "Rows", data |-> Unset, rows |-> rows, err |-> ""]
RetErr(e) == [tag |-> "Err", data |-> Unset, rows |-> NoRows, err |-> e]
\* Not a return value: load_prop is suspended before its delete statement.
RetPending == [tag |-> "Pending", data |-> Unset, rows |-> NoRows, err |-> ""]

SqlxError == "sqlx"
DeserializeError == "deserialization"
ReportedBug == "BUG: extracting an object from the database"

\* A load_prop between its select and its delete: the arguments it holds.
Suspended(interface, path, interface_major) ==
    [interface |-> interface, path |-> path,
     interface_major |-> interface_major]

\* The step just taken: the operation, the statement it executed, the key and
\* (for load_prop) the requested major, whether the statement met a row of its
\* key, and what the operation returned.
Step(op, stmt, interface, path, interface_major, hit, ret) ==
    [op |-> op, stmt |-> stmt, interface |-> interface, path |-> path,
     interface_major |-> interface_major, hit |-> hit, ret |-> ret]

NoStep == Step("none", "none", "", "", 0, FALSE, RetOk)

Event(ev, value, interface_major) ==
    [ev |-> ev, value |-> value, interface_major |-> interface_major]

\* ------------------------------------------------------- SQL statements
RowsOf(table, interface, path) ==
    SelectSeq(table, LAMBDA r : KeyOf(r) = Key(interface, path))

\* Mutant: "insert or ignore": a conflicting row is kept as it is.
InsertOrIgnore(table, row) ==
    IF RowsOf(table, row.interface, row.path) # <<>> THEN table
    ELSE Append(table, row)

\* Mutant: an empty value is taken as a request to remove the row.
InsertOrReplace_UnsetDeletes(table, row) ==
    IF row.value = <<>>
    THEN SelectSeq(table, LAMBDA r : KeyOf(r) # KeyOf(row))
    ELSE Append(SelectSeq(table, LAMBDA r : KeyOf(r) # KeyOf(row)), row)

\* Mutant: a plain insert into a table that lost its primary key.
InsertNoReplace(table, row) == Append(table, row)

\* Mutant: "on conflict do update set value = excluded.value", the major of
\* the old row kept.
InsertOrReplace_KeepMajor(table, row) ==
    IF RowsOf(table, row.interface, row.path) = <<>>
    THEN Append(table, row)
    ELSE Append(SelectSeq(table, LAMBDA r : KeyOf(r) # KeyOf(row)),
                [row EXCEPT !.interface_major =
                    RowsOf(table, row.interface, row.path)[1].interface_major])

\* "insert or replace into propcache (...) VALUES (?,?,?,?)" under
\* PRIMARY KEY (interface, path): the conflicting row is removed and the new
\* row is inserted with a fresh rowid (at the end of the rowid order).
InsertOrReplace(table, row) ==
    Append(SelectSeq(table, LAMBDA r : KeyOf(r) # KeyOf(row)), row)

\* Mutant: "where path=?", the interface forgotten.
DeleteWhere_Path(table, interface, path) ==
    SelectSeq(table, LAMBDA r : r.path # path)

\* Mutant: "where interface=? or path=?".
DeleteWhere_Or(table, interface, path) ==
    SelectSeq(table, LAMBDA r : ~(r.interface = interface \/ r.path = path))

\* "delete from propcache where interface=? and path=?"
DeleteWhere(table, interface, path) ==
    SelectSeq(table, LAMBDA r : ~(r.interface = interface /\ r.path = path))

\* Mutant: only the first row is removed.
DeleteAll_FirstOnly(table) == IF table = <<>> THEN <<>> ELSE Tail(table)

\* "delete from propcache"
DeleteAll(table) == <<>>

\* "select value, interface_major from propcache where interface=? and path=?"
\* with fetch_optional: Option<(Vec<u8>, i32)>, here a sequence of length 0 or 1.
SelectValueMajor(table, interface, path) ==
    LET hits == RowsOf(table, interface, path)
    IN  IF hits = <<>> THEN <<>>
        ELSE <<[value |-> hits[1].value,
                interface_major |-> hits[1].interface_major]>>

\* Mutant: fetch_optional in place of fetch_all, a single row at most.
SelectAll_FirstOnly(table) == IF table = <<>> THEN <<>> ELSE <<table[1]>>

\* "select * from propcache" with fetch_all.
SelectAll(table) == table

\* Mutant: a major mismatch returns None without the delete.
LoadDecide_NoEvict(res, interface_major) ==
    IF res = <<>> THEN RetNone
    ELSE IF res[1].interface_major # interface_major THEN RetNone
    ELSE LET data == deserialize(res[1].value)
         IN  IF data.tag = "Err" THEN RetErr(DeserializeError)
             ELSE IF data.tag = "Individual" THEN RetSome(data.data)
             ELSE RetErr(ReportedBug)

\* Mutant: the stored major is not compared with the requested one.
LoadDecide_IgnoreMajor(res, interface_major) ==
    IF res = <<>> THEN RetNone
    ELSE LET data == deserialize(res[1].value)
         IN  IF data.tag = "Err" THEN RetErr(DeserializeError)
             ELSE IF data.tag = "Individual" THEN RetSome(data.data)
             ELSE RetErr(ReportedBug)

\* Mutant: an Object found in the cache is dropped as if absent.
LoadDecide_ObjectAsNone(res, interface_major) ==
    IF res = <<>> THEN RetNone
    ELSE IF res[1].interface_major # interface_major THEN RetPending
    ELSE LET data == deserialize(res[1].value)
         IN  IF data.tag = "Err" THEN RetErr(DeserializeError)
             ELSE IF data.tag = "Individual" THEN RetSome(data.data)
             ELSE RetNone

\* Mutant: a value that does not decode is evicted like a stale row.
LoadDecide_EvictUndecodable(res, interface_major) ==
    IF res = <<>> THEN RetNone
    ELSE IF res[1].interface_major # interface_major THEN RetPending
    ELSE LET data == deserialize(res[1].value)
         IN  IF data.tag = "Err" THEN RetPending
             ELSE IF data.tag = "Individual" THEN RetSome(data.data)
             ELSE RetErr(ReportedBug)

\* Mutant: every row found goes on to the delete, the major not compared.
LoadDecide_EvictAlways(res, interface_major) ==
    IF res = <<>> THEN RetNone ELSE RetPending

\* load_prop after its select: what it returns, or that it goes on to delete.
LoadDecide(res, interface_major) ==
    IF res = <<>> THEN RetNone
    ELSE IF res[1].interface_major # interface_major THEN RetPending
    ELSE LET data == deserialize(res[1].value)
         IN  IF data.tag = "Err" THEN RetErr(DeserializeError)
             ELSE IF data.tag = "Individual" THEN RetSome(data.data)
             ELSE RetErr(ReportedBug)

\* ------------------------------------------------------------- operations
\* Every statement ends in ".await?": the engine may fail it (ok = FALSE), the
\* table is then untouched and the operation returns the sqlx error.
store_prop(interface, path, value, interface_major) ==
    /\ \E ok \in BOOLEAN :
        LET hit == RowsOf(propcache, interface, path) # <<>>
        IN  IF ok
            THEN /\ propcache' = InsertOrReplace(propcache,
                        StoredProp(interface, path, value, interface_major))
                 /\ last' = [last EXCEPT ![Key(interface, path)] =
                                Event("store", value, interface_major)]
                 /\ cleared' = FALSE
                 /\ result' = Step("store_prop", "insert", interface, path, 0,
                                   hit, RetOk)
            ELSE /\ UNCHANGED <<propcache, last, cleared>>
                 /\ result' = Step("store_prop", "insert", interface, path, 0,
                                   hit, RetErr(SqlxError))
    /\ UNCHANGED <<suspended, pairing>>

load_prop_select(interface, path, interface_major) ==
    /\ \E ok \in BOOLEAN :
        LET ret == IF ok
                   THEN LoadDecide(SelectValueMajor(propcache, interface, path),
                                   interface_major)
                   ELSE RetErr(SqlxError)
        IN  /\ ret = RetPending => BagCardinality(suspended) < MaxSuspended
            /\ result' = Step("load_prop", "select", interface, path,
                              interface_major, FALSE, ret)
            /\ suspended' =
                   IF ret = RetPending
                   THEN suspended (+)
                        SetToBag({Suspended(interface, path, interface_major)})
                   ELSE suspended
    /\ UNCHANGED <<propcache, last, cleared, pairing>>

\* Mutant: "let _ = self.delete_prop(interface, path).await;" -- the outcome
\* of the delete is dropped and the call returns None either way.
load_prop_delete_Swallow(call) ==
    /\ BagIn(call, suspended)
    /\ LET interface == call.interface
           path == call.path
       IN \E ok \in BOOLEAN :
            /\ result' = Step("load_prop", "delete", interface, path,
                              call.interface_major, FALSE, RetNone)
            /\ IF ok
               THEN /\ propcache' = DeleteWhere(propcache, interface, path)
                    /\ last' = [last EXCEPT ![Key(interface, path)] =
                                   Event("evict", <<>>, 0)]
               ELSE UNCHANGED <<propcache, last>>
    /\ suspended' = suspended (-) SetToBag({call})
    /\ UNCHANGED <<cleared, pairing>>

\* "self.delete_prop(interface, path).await?; return Ok(None);"
load_prop_delete(call) ==
    /\ BagIn(call, suspended)
    /\ LET interface == call.interface
           path == call.path
       IN \E ok \in BOOLEAN :
            IF ok
            THEN /\ propcache' = DeleteWhere(propcache, interface, path)
                 /\ last' = [last EXCEPT ![Key(interface, path)] =
                                Event("evict", <<>>, 0)]
                 /\ result' = Step("load_prop", "delete", interface, path,
                                   call.interface_major, FALSE, RetNone)
            ELSE /\ UNCHANGED <<propcache, last>>
                 /\ result' = Step("load_prop", "delete", interface, path,
                                   call.interface_major, FALSE,
                                   RetErr(SqlxError))
    /\ suspended' = suspended (-) SetToBag({call})
    /\ UNCHANGED <<cleared, pairing>>

delete_prop(interface, path) ==
    /\ \E ok \in BOOLEAN :
        LET hit == RowsOf(propcache, interface, path) # <<>>
        IN  IF ok
            THEN /\ propcache' = DeleteWhere(propcache, interface, path)
                 /\ last' = [last EXCEPT ![Key(interface, path)] =
                                Event("delete", <<>>, 0)]
                 /\ result' = Step("delete_prop", "delete", interface, path, 0,
                                   hit, RetOk)
            ELSE /\ UNCHANGED <<propcache, last>>
                 /\ result' = Step("delete_prop", "delete", interface, path, 0,
                                   hit, RetErr(SqlxError))
    /\ UNCHANGED <<suspended, cleared, pairing>>

clear ==
    /\ \E ok \in BOOLEAN :
        IF ok
        THEN /\ propcache' = DeleteAll(propcache)
             /\ last' = [k \in Keys |-> Event("clear", <<>>, 0)]
             /\ cleared' = TRUE
             /\ result' = Step("clear", "delete", "", "", 0, FALSE, RetOk)
        ELSE /\ UNCHANGED <<propcache, last, cleared>>
             /\ result' = Step("clear", "delete", "", "", 0, FALSE,
                               RetErr(SqlxError))
    /\ UNCHANGED <<suspended, pairing>>

load_all_props ==
    /\ \E ok \in BOOLEAN :
        result' = Step("load_all_props", "select", "", "", 0, FALSE,
                       IF ok THEN RetRows(SelectAll(propcache))
                       ELSE RetErr(SqlxError))
    /\ UNCHANGED <<propcache, suspended, last, cleared, pairing>>

\* ----------------------------------------------------------- pairing client
\* The AstarteBuilder fields the two calls read.  A pairing_url is kept by its
\* parts: the scheme ("" when the text has none), the path segments typed after
\* the host, and whether the text ends with a slash.
Realms == {"test", "other"}
DeviceIds == {"dev1"}
Secrets == {"secret"}
Csrs == {"CSR"}
PathPrefixes == {<<>>, <<"pairing">>, <<"api", "pairing">>}
PairingUrls ==
    [scheme : {"https", "mailto", ""}, prefix : PathPrefixes, slash : BOOLEAN]
Builders ==
    [realm : Realms, device_id : DeviceIds, credentials_secret : Secrets,
     pairing_url : PairingUrls]

RECURSIVE SlashJoin(_)
\* "/a/b" as the tokens "/", "a", "/", "b".
SlashJoin(segs) ==
    IF segs = <<>> THEN <<>>
    ELSE <<"/", Head(segs)>> \o SlashJoin(Tail(segs))

\* Url::parse(pairing_url): a text without a scheme is not an absolute URL
\* (ParseError::RelativeUrlWithoutBase); a mailto: URL parses and cannot be a
\* base; an https URL with nothing after the host has the path "/".
UrlParse(u) ==
    IF u.scheme = ""
    THEN [ok |-> FALSE, cannot_be_a_base |-> FALSE, path |-> <<>>]
    ELSE IF u.scheme = "mailto"
    THEN [ok |-> TRUE, cannot_be_a_base |-> TRUE, path |-> <<"opaque">>]
    ELSE [ok |-> TRUE, cannot_be_a_base |-> FALSE,
          path |-> IF u.prefix = <<>> THEN <<"/">>
                   ELSE SlashJoin(u.prefix)
                            \o (IF u.slash THEN <<"/">> ELSE <<>>)]

\* PathSegmentsMut::push as called at pairing.rs 84-92: "." and ".." are
\* ignored; a slash is added between the existing path and the segment except
\* when the existing path is "/".
Push(path, segment) ==
    IF segment \in {".", ".."} THEN path
    ELSE (IF Len(path) > 1 THEN path \o <<"/">> ELSE path) \o <<segment>>

RECURSIVE PushAll(_, _)
PushAll(path, segs) ==
    IF segs = <<>> THEN path
    ELSE PushAll(Push(path, Head(segs)), Tail(segs))

CredentialsSegments(realm, device_id) ==
    <<"v1", realm, "devices", device_id, "protocols", "astarte_mqtt_v1",
      "credentials">>

BrokerSegments(realm, device_id) == <<"v1", realm, "devices", device_id>>

\* The URL both calls build: Err(InvalidUrl) or the request path.
BuildUrl(pairing_url, segs) ==
    LET url == UrlParse(pairing_url)
    IN  IF ~url.ok \/ url.cannot_be_a_base
        THEN [ok |-> FALSE, path |-> <<>>]
        ELSE [ok |-> TRUE, path |-> PushAll(url.path, segs)]

\* Response bodies, as text.
BodyCredentials == "{\"data\":{\"client_crt\":\"X\"}}"
BodyClientCertificate == "{\"data\":{\"clientCertificate\":\"X\"}}"
BodyStatus ==
    "{\"data\":{\"version\":\"1\",\"status\":\"pending\",\"protocols\":{\"astarte_mqtt_v1\":{\"broker_url\":\"mqtts://broker\"}}}}"
BodyStatusWithCrt ==
    "{\"data\":{\"version\":\"1\",\"status\":\"confirmed\",\"client_crt\":\"X\",\"protocols\":{\"astarte_mqtt_v1\":{\"broker_url\":\"mqtts://broker\"}}}}"
BodyStatusCamel ==
    "{\"data\":{\"version\":\"1\",\"status\":\"pending\",\"protocols\":{\"astarteMqttV1\":{\"brokerUrl\":\"mqtts://broker\"}}}}"
BodyOtherJson == "{\"data\":{}}"
BodyForbidden == "forbidden"
Bodies ==
    {BodyCredentials, BodyClientCertificate, BodyStatus, BodyStatusWithCrt,
     BodyStatusCamel, BodyOtherJson, BodyForbidden}

\* serde_json over the body: whether it is JSON with a "data" object, and the
\* fields of that object that hold what the structs ask for (pairing.rs 28-54).
JsonData(body) ==
    CASE body = BodyCredentials ->
            [json |-> TRUE, fields |-> {"client_crt"},
             client_crt |-> "X", broker_url |-> ""]
      [] body = BodyClientCertificate ->
            [json |-> TRUE, fields |-> {"clientCertificate"},
             client_crt |-> "", broker_url |-> ""]
      [] body = BodyStatus ->
            [json |-> TRUE, fields |-> {"version", "status", "protocols"},
             client_crt |-> "", broker_url |-> "mqtts://broker"]
      [] body = BodyStatusWithCrt ->
            [json |-> TRUE,
             fields |-> {"version", "status", "protocols", "client_crt"},
             client_crt |-> "X", broker_url |-> "mqtts://broker"]
      [] body = BodyStatusCamel ->
            [json |-> TRUE, fields |-> {"version", "status"},
             client_crt |-> "", broker_url |-> ""]
      [] body = BodyOtherJson ->
            [json |-> TRUE, fields |-> {}, client_crt |-> "", broker_url |-> ""]
      [] OTHER ->
            [json |-> FALSE, fields |-> {}, client_crt |-> "", broker_url |-> ""]

\* response.json::<ApiResponse>(): the untagged ResponseContents takes the first
\* variant, in declaration order, whose fields are all present (unknown fields
\* are ignored); no variant fitting is a decode error.
ParseApiResponse(body) ==
    LET d == JsonData(body)
    IN  IF ~d.json THEN [ok |-> FALSE, variant |-> "", value |-> ""]
        ELSE IF "client_crt" \in d.fields
        THEN [ok |-> TRUE, variant |-> "AstarteMqttV1Credentials",
              value |-> d.client_crt]
        ELSE IF {"version", "status", "protocols"} \subseteq d.fields
        THEN [ok |-> TRUE, variant |-> "StatusInfo", value |-> d.broker_url]
        ELSE [ok |-> FALSE, variant |-> "", value |-> ""]

CREATED == 201
OK == 200
Statuses == {OK, CREATED, 204, 403}

PairOk(value) ==
    [tag |-> "Ok", value |-> value, err |-> "", status |-> 0, body |-> ""]
PairErr(e) ==
    [tag |-> "Err", value |-> "", err |-> e, status |-> 0, body |-> ""]
ApiError(status, body) ==
    [tag |-> "Err", value |-> "", err |-> "ApiError", status |-> status,
     body |-> body]
PairNoRet ==
    [tag |-> "", value |-> "", err |-> "", status |-> 0, body |-> ""]

NoRequest ==
    [method |-> "", path |-> <<>>, bearer |-> "", csr |-> ""]
NoResponse == [status |-> 0, body |-> ""]
NoBuilder ==
    [realm |-> "", device_id |-> "", credentials_secret |-> "",
     pairing_url |-> [scheme |-> "", prefix |-> <<>>, slash |-> FALSE]]

NoPairing ==
    [pc |-> "idle", op |-> "none", device |-> NoBuilder,
     request |-> NoRequest, requests |-> 0, response |-> NoResponse,
     ret |-> PairNoRet]

\* Mutant: the success arm returns the body text instead of the parsed field.
MapResponse_RawBody(status, body, success, variant) ==
    IF status = success
    THEN LET parsed == ParseApiResponse(body)
         IN  IF ~parsed.ok THEN PairErr("RequestError")
             ELSE IF parsed.variant = variant THEN PairOk(body)
             ELSE PairErr("UnexpectedResponse")
    ELSE ApiError(status, body)

\* Mutant: every 2xx status takes the success arm (status.is_success()).
MapResponse_Any2xx(status, body, success, variant) ==
    IF status \in 200..299
    THEN LET parsed == ParseApiResponse(body)
         IN  IF ~parsed.ok THEN PairErr("RequestError")
             ELSE IF parsed.variant = variant THEN PairOk(parsed.value)
             ELSE PairErr("UnexpectedResponse")
    ELSE ApiError(status, body)

\* What the match on response.status() returns, for the status that is the
\* call's success status and the variant the call destructures.
MapResponse(status, body, success, variant) ==
    IF status = success
    THEN LET parsed == ParseApiResponse(body)
         IN  IF ~parsed.ok THEN PairErr("RequestError")
             ELSE IF parsed.variant = variant THEN PairOk(parsed.value)
             ELSE PairErr("UnexpectedResponse")
    ELSE ApiError(status, body)

\* A call up to "send().await": Err(InvalidUrl) before any request, or the
\* request is on the wire.
SendOutcome(op, device, method, segs, csr) ==
    LET url == BuildUrl(device.pairing_url, segs)
    IN  IF ~url.ok
        THEN [pc |-> "done", op |-> op, device |-> device,
              request |-> NoRequest, requests |-> 0,
              response |-> NoResponse, ret |-> PairErr("InvalidUrl")]
        ELSE [pc |-> "sent", op |-> op, device |-> device,
              request |-> [method |-> method, path |-> url.path,
                           bearer |-> device.credentials_secret,
                           csr |-> csr],
              requests |-> 1, response |-> NoResponse, ret |-> PairNoRet]

\* Mutant: a failed send() is sent once more instead of ending the call.
ReceiveOutcome_Retry(transport, status, body, success, variant) ==
    IF transport = "send_error"
    THEN [pairing EXCEPT !.requests = 2]
    ELSE IF transport = "body_error"
    THEN [pairing EXCEPT !.pc = "done",
                         !.response = [status |-> status, body |-> ""],
                         !.ret = PairErr("RequestError")]
    ELSE [pairing EXCEPT !.pc = "done",
                         !.response = [status |-> status, body |-> body],
                         !.ret = MapResponse(status, body, success, variant)]

\* The rest of a call: send() fails, or a response arrives and its body is
\* read (json() / text(), which may fail on the transport too).
ReceiveOutcome(transport, status, body, success, variant) ==
    IF transport = "send_error"
    THEN [pairing EXCEPT !.pc = "done", !.ret = PairErr("RequestError")]
    ELSE IF transport = "body_error"
    THEN [pairing EXCEPT !.pc = "done",
                         !.response = [status |-> status, body |-> ""],
                         !.ret = PairErr("RequestError")]
    ELSE [pairing EXCEPT !.pc = "done",
                         !.response = [status |-> status, body |-> body],
                         !.ret = MapResponse(status, body, success, variant)]

Transports == {"ok", "send_error", "body_error"}

fetch_credentials_send(device, csr) ==
    /\ pairing.pc \in {"idle", "done"}
    /\ pairing' = SendOutcome("fetch_credentials", device, "POST",
                    CredentialsSegments(device.realm, device.device_id), csr)
    /\ UNCHANGED dbvars

fetch_credentials_receive ==
    /\ pairing.pc = "sent"
    /\ pairing.op = "fetch_credentials"
    /\ \E transport \in Transports, status \in Statuses, body \in Bodies :
        pairing' = ReceiveOutcome(transport, status, body, CREATED,
                                  "AstarteMqttV1Credentials")
    /\ UNCHANGED dbvars

fetch_broker_url_send(device) ==
    /\ pairing.pc \in {"idle", "done"}
    /\ pairing' = SendOutcome("fetch_broker_url", device, "GET",
                    BrokerSegments(device.realm, device.device_id), "")
    /\ UNCHANGED dbvars

fetch_broker_url_receive ==
    /\ pairing.pc = "sent"
    /\ pairing.op = "fetch_broker_url"
    /\ \E transport \in Transports, status \in Statuses, body \in Bodies :
        pairing' = ReceiveOutcome(transport, status, body, OK, "StatusInfo")
    /\ UNCHANGED dbvars

\* AstarteSqliteDatabase::new: "CREATE TABLE if not exists propcache ...";
\* the cache starts from the empty table (sqlite::memory: or a fresh file).
DbInit ==
    /\ propcache = <<>>
    /\ suspended = EmptyBag
    /\ result = NoStep
    /\ last = [k \in Keys |-> Event("none", <<>>, 0)]
    /\ cleared = FALSE

Init == DbInit /\ pairing = NoPairing

Next ==
    \/ \E i \in Interfaces, p \in Paths, v \in Payloads, m \in Majors :
            store_prop(i, p, v, m)
    \/ \E i \in Interfaces, p \in Paths, m \in Majors :
            load_prop_select(i, p, m)
    \/ \E call \in BagToSet(suspended) : load_prop_delete(call)
    \/ \E i \in Interfaces, p \in Paths : delete_prop(i, p)
    \/ clear
    \/ load_all_props

Spec == Init /\ [][Next]_vars

PairingNext ==
    \/ \E device \in Builders, csr \in Csrs : fetch_credentials_send(device, csr)
    \/ fetch_credentials_receive
    \/ \E device \in Builders : fetch_broker_url_send(device)
    \/ fetch_broker_url_receive

PairingSpec == Init /\ [][PairingNext]_vars

\* ------------------------------------------------------ property cache claims
\* The key of the step just taken, and the rows the table holds for a key.
StepKey == Key(result.interface, result.path)
Rows(k) == RowsOf(propcache, k.interface, k.path)

\* load_prop's select statement was executed by the engine (no sqlx error).
LoadSelected ==
    /\ result.op = "load_prop"
    /\ result.stmt = "select"
    /\ result.ret # RetErr(SqlxError)

\* load_prop's delete statement was executed by the engine.
LoadEvicted ==
    /\ result.op = "load_prop"
    /\ result.stmt = "delete"
    /\ result.ret # RetErr(SqlxError)

\* The rows the history says the table must hold: one per key whose latest
\* event is a store, with that store's value and major.
StoredKeys == {k \in Keys : last[k].ev = "store"}
ExpectedRow(k) ==
    StoredProp(k.interface, k.path, last[k].value, last[k].interface_major)
ExpectedRows == {ExpectedRow(k) : k \in StoredKeys}

\* C1 (round trip): a load_prop whose key was last touched by a successful
\* store_prop of encode(v), v a non-empty scalar, with the requested major,
\* returns Some(v).
C1_RoundTrip ==
    \A v \in Scalars :
        (/\ LoadSelected
         /\ last[StepKey] = Event("store", serialize_individual(v),
                                  result.interface_major))
        => result.ret = RetSome(v)

C1_Witness ==
    /\ LoadSelected
    /\ last[StepKey] = Event("store", serialize_individual(Integer(23)),
                             result.interface_major)
    /\ result.ret = RetSome(Integer(23))
    /\ Len(propcache) = 2

\* C2 (version invalidation): a load_prop that finds its key last stored with
\* another major goes on to its delete; once the delete has run the call
\* returns None and the key has no row; and a load_prop of a key whose latest
\* event is that eviction (no store since) returns None for every major.
C2_VersionInvalidation ==
    /\ (/\ LoadSelected
        /\ last[StepKey].ev = "store"
        /\ last[StepKey].interface_major # result.interface_major)
       => /\ result.ret = RetPending
          /\ BagIn(Suspended(result.interface, result.path,
                             result.interface_major), suspended)
    /\ LoadEvicted
       => /\ result.ret = RetNone
          /\ Rows(StepKey) = <<>>
          /\ last[StepKey].ev = "evict"
    /\ \A k \in Keys : last[k].ev = "evict" => Rows(k) = <<>>
    /\ (LoadSelected /\ last[StepKey].ev = "evict") => result.ret = RetNone

C2_Witness ==
    /\ LoadSelected
    /\ last[StepKey].ev = "evict"
    /\ result.ret = RetNone

\* C3 (no wrong-version data): whatever the interleaving, a load_prop that
\* returns Some(v) read a row written by one store_prop on the same key, with
\* the requested major, whose value decodes to v.
C3_NoWrongVersion ==
    (result.op = "load_prop" /\ result.ret.tag = "Some")
    => /\ last[StepKey].ev = "store"
       /\ last[StepKey].interface_major = result.interface_major
       /\ deserialize(last[StepKey].value) = Individual(result.ret.data)
       /\ Rows(StepKey) = <<ExpectedRow(StepKey)>>

\* A value is returned while another load_prop on the same key is suspended
\* before its delete.
C3_Witness ==
    /\ result.op = "load_prop"
    /\ result.ret.tag = "Some"
    /\ \E call \in BagToSet(suspended) :
            /\ call.interface = result.interface
            /\ call.path = result.path
            /\ call.interface_major # result.interface_major

\* C4 (unset sentinel): a key last stored with the empty value has its row,
\* with the empty value; a load_prop of it with the stored major returns
\* Some(Unset); load_all_props lists the row.
C4_UnsetSentinel ==
    /\ \A k \in Keys :
        (last[k].ev = "store" /\ last[k].value = <<>>)
        => /\ Rows(k) = <<ExpectedRow(k)>>
           /\ (result.op = "load_all_props" /\ result.ret.tag = "Rows")
              => \E i \in 1..Len(result.ret.rows) :
                    result.ret.rows[i] = ExpectedRow(k)
    /\ (/\ LoadSelected
        /\ last[StepKey] = Event("store", <<>>, result.interface_major))
       => result.ret = RetSome(Unset)

C4_Witness ==
    /\ LoadSelected
    /\ last[StepKey] = Event("store", <<>>, result.interface_major)
    /\ result.ret = RetSome(Unset)

\* C5 (unique key, full replace): no two rows of the table share a key, and a
\* key whose latest event is a store has exactly the row of that store's
\* arguments.
C5_UniqueKeyFullReplace ==
    /\ \A i, j \in 1..Len(propcache) :
        i # j => KeyOf(propcache[i]) # KeyOf(propcache[j])
    /\ \A k \in StoredKeys : Rows(k) = <<ExpectedRow(k)>>

\* A store_prop has just replaced an existing row.
C5_Witness ==
    /\ result.op = "store_prop"
    /\ result.ret = RetOk
    /\ result.hit
    /\ Len(propcache) = 2

\* C6 (clear wipes all): between a successful clear and the next store, the
\* table is empty, load_all_props returns the empty sequence and load_prop
\* returns None for every key and major.
C6_ClearWipesAll ==
    cleared
    => /\ propcache = <<>>
       /\ (result.op = "load_all_props" /\ result.ret.tag = "Rows")
          => result.ret.rows = <<>>
       /\ (result.op = "load_prop" /\ result.ret # RetErr(SqlxError))
          => result.ret = RetNone

C6_Witness ==
    /\ cleared
    /\ result.op = "load_prop"
    /\ result.stmt = "select"
    /\ result.ret = RetNone

\* C7 (listing completeness): the table holds exactly the expected rows, once
\* each, and load_all_props returns exactly them.
C7_ListingComplete ==
    /\ Range(propcache) = ExpectedRows
    /\ Len(propcache) = Cardinality(StoredKeys)
    /\ (result.op = "load_all_props" /\ result.ret.tag = "Rows")
       => /\ Range(result.ret.rows) = ExpectedRows
          /\ Len(result.ret.rows) = Cardinality(StoredKeys)

C7_Witness ==
    /\ result.op = "load_all_props"
    /\ result.ret.tag = "Rows"
    /\ Len(result.ret.rows) = 2
    /\ result.ret.rows[1].interface = "com.test"
    /\ result.ret.rows[2].interface = "com.test2"

\* C8 (idempotent delete): a delete_prop fails only with the engine's error;
\* one that succeeds leaves no row of its key and every other row as it was,
\* in place; on a key with no row it leaves the table unchanged, so a second
\* delete_prop of the same key changes nothing.
C8_IdempotentDelete ==
    [][ /\ (result'.op = "delete_prop" /\ result'.ret.tag = "Err")
           => /\ result'.ret.err = SqlxError
              /\ propcache' = propcache
        /\ (result'.op = "delete_prop" /\ result'.ret = RetOk)
           => LET k == Key(result'.interface, result'.path)
              IN  /\ RowsOf(propcache', k.interface, k.path) = <<>>
                  /\ Range(propcache')
                        = {r \in Range(propcache) : KeyOf(r) # k}
                  /\ Len(propcache')
                        = Len(propcache)
                            - Len(RowsOf(propcache, k.interface, k.path))
                  /\ RowsOf(propcache, k.interface, k.path) = <<>>
                        => propcache' = propcache
                  /\ (/\ result.op = "delete_prop"
                      /\ result.ret = RetOk
                      /\ Key(result.interface, result.path) = k)
                        => propcache' = propcache
      ]_vars

\* A delete_prop of a key with no row succeeded while the other key is stored.
C8_Witness ==
    /\ result.op = "delete_prop"
    /\ result.ret = RetOk
    /\ ~result.hit
    /\ Len(propcache) = 1

\* C9 (aggregate defect): a load_prop that finds its key last stored with the
\* requested major and a value decoding to an Object fails with the
\* "BUG: extracting an object" error.
C9_AggregateDefect ==
    (/\ LoadSelected
     /\ last[StepKey].ev = "store"
     /\ last[StepKey].interface_major = result.interface_major
     /\ deserialize(last[StepKey].value) = Object)
    => result.ret = RetErr(ReportedBug)

C9_Witness ==
    /\ LoadSelected
    /\ last[StepKey] = Event("store", ObjectBytes, result.interface_major)
    /\ result.ret = RetErr(ReportedBug)

\* ------------------------------------------------------------ pairing claims
\* The same pairing_url text with its trailing slash added or removed.
ToggleSlash(u) == [u EXCEPT !.slash = ~u.slash]

PairingSegments ==
    IF pairing.op = "fetch_credentials"
    THEN CredentialsSegments(pairing.device.realm, pairing.device.device_id)
    ELSE BrokerSegments(pairing.device.realm, pairing.device.device_id)

HasEmptySegment(path) ==
    \E i \in 1..(Len(path) - 1) : path[i] = "/" /\ path[i + 1] = "/"

\* C10 (URL normalization): the path of a request built from a base URL that
\* ends with a slash is the path built from the same base URL without that
\* slash, and holds no empty segment.
C10_TrailingSlashIrrelevant ==
    (pairing.requests = 1 /\ pairing.device.pairing_url.slash)
    => /\ pairing.request.path
            = BuildUrl(ToggleSlash(pairing.device.pairing_url),
                       PairingSegments).path
       /\ ~HasEmptySegment(pairing.request.path)

\* A call has ended with a response whose status and body were both received.
ResponseRead == pairing.pc = "done" /\ pairing.response.body \in Bodies

\* The status each call matches as its success arm.
SuccessStatus == IF pairing.op = "fetch_credentials" THEN CREATED ELSE OK

\* C11 (non-success status): a call that received a response with a status
\* other than its success status (201 for fetch_credentials, 200 for
\* fetch_broker_url) returns ApiError with that status and the body as
\* received, whatever the body is.
C11_NonSuccessIsApiError ==
    (ResponseRead /\ pairing.response.status # SuccessStatus)
    => pairing.ret = ApiError(pairing.response.status, pairing.response.body)

\* fetch_broker_url got 201, another 2xx, with a body of its own success shape.
C11_Witness ==
    /\ ResponseRead
    /\ pairing.op = "fetch_broker_url"
    /\ pairing.response = [status |-> CREATED, body |-> BodyStatus]
    /\ pairing.ret = ApiError(CREATED, BodyStatus)

\* fetch_credentials has ended with this status and this body received.
CredentialsGot(status, body) ==
    /\ ResponseRead
    /\ pairing.op = "fetch_credentials"
    /\ pairing.response = [status |-> status, body |-> body]

MatchesCredentials(body) ==
    JsonData(body).json /\ "client_crt" \in JsonData(body).fields

\* C13 (shape mismatch on credentials): fetch_credentials receiving 201 with
\* a JSON body that does not match the Credentials shape (a Status shape,
\* another JSON shape, or one lacking the required field) fails with
\* UnexpectedResponse and with no other error.
C13_MismatchIsUnexpectedResponse ==
    \A body \in Bodies :
        (CredentialsGot(CREATED, body) /\ JsonData(body).json
            /\ ~MatchesCredentials(body))
        => pairing.ret = PairErr("UnexpectedResponse")

\* The body is JSON whose "data" object carries every field the StatusInfo
\* variant requires, the nested broker URL included.
MatchesStatus(body) ==
    JsonData(body).json
    /\ {"version", "status", "protocols"} \subseteq JsonData(body).fields

\* fetch_broker_url has ended with this status and this body received.
BrokerGot(status, body) ==
    /\ ResponseRead
    /\ pairing.op = "fetch_broker_url"
    /\ pairing.response = [status |-> status, body |-> body]

\* C14 (broker discovery): fetch_broker_url receiving 200 with a body of the
\* Status shape returns the nested broker URL exactly, for every such body,
\* bodies with further fields such as a certificate field included; 200 with
\* a body of the Credentials shape fails with UnexpectedResponse.
C14_BrokerDiscovery ==
    \A body \in Bodies :
        /\ (BrokerGot(OK, body) /\ MatchesStatus(body))
           => pairing.ret = PairOk(JsonData(body).broker_url)
        /\ (BrokerGot(OK, body) /\ MatchesCredentials(body)
                /\ ~MatchesStatus(body))
           => pairing.ret = PairErr("UnexpectedResponse")

\* The base URL of the call does not parse, or parses and cannot be a base.
BadBaseUrl(u) == ~UrlParse(u).ok \/ UrlParse(u).cannot_be_a_base

\* C15 (one-shot requests): a call sends at most one HTTP request; once the
\* request is sent the next step ends the call, whatever the outcome, without
\* sending again; a call whose base URL does not parse or cannot be a base
\* ends at once with InvalidUrl and has sent no request.
C15_OneShot ==
    [][/\ pairing'.requests \in {0, 1}
       /\ pairing.pc = "sent"
          => /\ pairing'.pc = "done"
             /\ pairing'.requests = pairing.requests
             /\ pairing'.request = pairing.request
       /\ (pairing.pc # "sent" /\ BadBaseUrl(pairing'.device.pairing_url))
          => /\ pairing'.pc = "done"
             /\ pairing'.ret = PairErr("InvalidUrl")
             /\ pairing'.requests = 0
             /\ pairing'.request = NoRequest
       /\ pairing'.ret = PairErr("InvalidUrl") => pairing'.requests = 0
      ]_vars

\* A call on a mailto: base URL, which parses and cannot be a base, has ended
\* with InvalidUrl and no request.
C15_Witness ==
    /\ pairing.pc = "done"
    /\ pairing.device.pairing_url.scheme = "mailto"
    /\ pairing.ret = PairErr("InvalidUrl")
    /\ pairing.requests = 0

\* The call the step just taken belongs to, as load_prop keeps it between its
\* two statements.
StepCall == Suspended(result.interface, result.path, result.interface_major)

\* The rows of key k, and the row its latest store asks for, after the step.
RowsAfter(k) == RowsOf(propcache', k.interface, k.path)
ExpectedRowAfter(k) ==
    StoredProp(k.interface, k.path, last'[k].value, last'[k].interface_major)

\* C16 (per-key frame): the row of a key changes only in a step of store_prop
\* on that key, of delete_prop on that key, of clear, or in the delete of a
\* load_prop on that key whose select saw a mismatched major; the select of
\* any load_prop and load_all_props leave the whole table as it was, and a
\* load_prop whose select found no row or the requested major has no delete.
C16_PerKeyFrame ==
    [][/\ \A k \in Keys :
            \/ propcache' = propcache
            \/ result'.op = "clear"
            \/ StepKey' = k /\ result'.op \in {"store_prop", "delete_prop"}
            \/ /\ StepKey' = k
               /\ result'.op = "load_prop" /\ result'.stmt = "delete"
               /\ BagIn(StepCall', suspended)
            \/ RowsAfter(k) = Rows(k)
       /\ (result'.op = "load_prop" /\ result'.stmt = "select")
          => /\ propcache' = propcache
             /\ suspended' # suspended
                => /\ Rows(StepKey') # <<>>
                   /\ Rows(StepKey')[1].interface_major
                          # result'.interface_major
       /\ result'.op = "load_all_props" => propcache' = propcache
      ]_vars

\* A load_prop evicted the row of its key and the other key still has its row.
C16_Witness ==
    /\ LoadEvicted
    /\ Rows(StepKey) = <<>>
    /\ \E k \in Keys : k # StepKey /\ Rows(k) = <<ExpectedRow(k)>>

\* The step taken is a statement of load_prop: its select, or its delete.
LoadStmt(stmt) == result.op = "load_prop" /\ result.stmt = stmt

\* C17 as stated (eviction only of stale rows): whenever the delete of a
\* load_prop(interface, path, m) removes a row, the row present at that moment
\* has a stored major other than m.
C17_EvictsOnlyStale ==
    [][(LoadStmt("delete")' /\ result'.ret = RetNone /\ Rows(StepKey') # <<>>)
       => Rows(StepKey')[1].interface_major # result'.interface_major
      ]_vars

\* C17 amended (eviction is decided on the row the select read): a load_prop
\* goes on to its delete only if the row its select read has a stored major
\* other than the requested one, and a load_prop whose select found no row or
\* the requested major has no delete; the delete is a statement of its own, and
\* the row it removes is the stale one whenever it is the very next statement
\* after the call's select.
C17_EvictionDecidedAtSelect ==
    [][/\ (LoadStmt("select")' /\ result'.ret = RetPending)
          => /\ Rows(StepKey') # <<>>
             /\ Rows(StepKey')[1].interface_major # result'.interface_major
             /\ suspended' = suspended (+) SetToBag({StepCall'})
       /\ (LoadStmt("select")' /\ result'.ret # RetPending)
          => suspended' = suspended
       /\ LoadStmt("delete")'
          => /\ BagIn(StepCall', suspended)
             /\ suspended' = suspended (-) SetToBag({StepCall'})
       /\ (LoadStmt("delete")' /\ LoadStmt("select") /\ result.ret = RetPending
              /\ StepCall = StepCall' /\ Rows(StepKey) # <<>>)
          => Rows(StepKey)[1].interface_major # result'.interface_major
      ]_vars

\* A store_prop has just written a row of major m while a load_prop that
\* requested m is between its select and its delete on that key.
C17_Witness ==
    /\ result.op = "store_prop" /\ result.ret = RetOk
    /\ Rows(StepKey) = <<ExpectedRow(StepKey)>>
    /\ \E m \in Majors :
        /\ last[StepKey].interface_major = m
        /\ BagIn(Suspended(result.interface, result.path, m), suspended)

\* Some load_prop on key k is between its select and its delete.
EvictionPending(k) ==
    \E call \in BagToSet(suspended) : Key(call.interface, call.path) = k

\* C18 (last writer wins on the eviction race): of a store_prop(k, v, m) and
\* the delete of a load_prop on k that saw a mismatched major, the statement
\* that runs last decides the row of k: an upsert that runs while the delete
\* is still to come, or after it, leaves exactly the row (v, m); a delete that
\* runs after the upsert leaves no row; and the load_prop whose delete was
\* executed returns None.
C18_LastWriterWins ==
    [][/\ (result'.op = "store_prop" /\ result'.ret = RetOk
              /\ (EvictionPending(StepKey') \/ last[StepKey'].ev = "evict"))
          => /\ last'[StepKey'].ev = "store"
             /\ RowsAfter(StepKey') = <<ExpectedRowAfter(StepKey')>>
       /\ (LoadStmt("delete")' /\ result'.ret # RetErr(SqlxError)
              /\ last[StepKey'].ev = "store")
          => /\ RowsAfter(StepKey') = <<>>
             /\ last'[StepKey'].ev = "evict"
       /\ (LoadStmt("delete")' /\ result'.ret # RetErr(SqlxError))
          => result'.ret = RetNone
      ]_vars

\* A store_prop has replaced the stale row of a key while a load_prop on that
\* key is between its select and its delete.
C18_Witness ==
    /\ result.op = "store_prop" /\ result.ret = RetOk /\ result.hit
    /\ EvictionPending(StepKey)
    /\ Rows(StepKey) = <<ExpectedRow(StepKey)>>

\* The statement of the step taken was failed by the engine.
StmtFailed == result.ret = RetErr(SqlxError)

\* C19 (storage errors propagate, no retry): a statement the engine fails
\* leaves the table as it was and ends its operation with that error, with no
\* further statement: a failed select of load_prop leaves no delete to come; a
\* failed delete of load_prop ends the call with the error, not None, and the
\* stale row stays; load_prop returns None from its delete only when the row
\* is gone.
C19_ErrorsPropagate ==
    [][/\ StmtFailed' => (propcache' = propcache /\ last' = last
                              /\ cleared' = cleared)
       /\ (StmtFailed' /\ LoadStmt("select")') => suspended' = suspended
       /\ (StmtFailed' /\ ~LoadStmt("select")' /\ ~LoadStmt("delete")')
          => suspended' = suspended
       /\ (StmtFailed' /\ LoadStmt("delete")')
          => /\ BagIn(StepCall', suspended)
             /\ suspended' = suspended (-) SetToBag({StepCall'})
       /\ (LoadStmt("delete")' /\ Rows(StepKey') # <<>>
              /\ RowsAfter(StepKey') = Rows(StepKey'))
          => StmtFailed'
      ]_vars

\* The delete of a load_prop failed: the call returned the error and the row
\* of the other major is still there.
C19_Witness ==
    /\ LoadStmt("delete") /\ StmtFailed
    /\ Rows(StepKey) # <<>>
    /\ Rows(StepKey)[1].interface_major # result.interface_major
    /\ ~BagIn(StepCall, suspended)

\* The error load_prop(k, m) ends with when the latest store on k wrote, with
\* major m, a value that does not decode or decodes to an aggregate; "none"
\* otherwise.
DecodeFailure(k, m) ==
    IF last[k].ev # "store" \/ last[k].interface_major # m THEN "none"
    ELSE IF deserialize(last[k].value).tag = "Err" THEN DeserializeError
    ELSE IF deserialize(last[k].value).tag = "Object" THEN ReportedBug
    ELSE "none"

\* C20 (a failing load leaves the row in place): a load_prop that fails on
\* decoding, or on an aggregate, leaves the table as it was with the row of
\* its key still listed, and no delete to come; and for as long as that row
\* is the latest event of the key (no store_prop, delete_prop, clear or
\* eviction since), every load_prop with the same major whose select is
\* executed fails with the same error.
C20_FailingLoadKeepsRow ==
    [][/\ (LoadStmt("select")'
              /\ result'.ret \in {RetErr(DeserializeError), RetErr(ReportedBug)})
          => /\ propcache' = propcache /\ last' = last
             /\ suspended' = suspended
             /\ RowsAfter(StepKey') = <<ExpectedRowAfter(StepKey')>>
             /\ ExpectedRowAfter(StepKey') \in Range(SelectAll(propcache'))
             /\ result'.ret.err
                    = DecodeFailure(StepKey', result'.interface_major)
       /\ (LoadStmt("select")' /\ ~StmtFailed'
              /\ DecodeFailure(StepKey', result'.interface_major) # "none")
          => result'.ret
                 = RetErr(DecodeFailure(StepKey', result'.interface_major))
      ]_vars

\* A load_prop failed on a value that does not decode, stored with the
\* requested major, and the row is still in the table.
C20_Witness ==
    /\ LoadStmt("select")
    /\ result.ret = RetErr(DeserializeError)
    /\ last[StepKey].ev = "store"
    /\ last[StepKey].interface_major = result.interface_major
    /\ Rows(StepKey) = <<ExpectedRow(StepKey)>>

====
